---- MODULE Spec2Model ----
(***************************************************************************)
(* The FostPlus API client of custom_components/recycle_app/api.py as a    *)
(* state machine.  One client instance (FostPlusApi) is called             *)
(* sequentially.  Every operation is a chain of steps: the call itself,    *)
(* the lazy initialization at the head of each request primitive, and one  *)
(* step per HTTP request of the bounded retry loop.  What the remote       *)
(* service answers is chosen nondeterministically at each request.         *)
(***************************************************************************)
EXTENDS Integers, Sequences, FiniteSets, TLC

VARIABLES
    session,          \* self.__session is set (api.py:23, 37)
    endpoint,         \* self.__endpoint (api.py:24, 50)
    sessionsCreated,  \* number of Session() constructions (api.py:37)
    configFetches,    \* number of GETs of app.settings.json (api.py:47)
    pc,               \* position of the running operation
    op,               \* the operation that runs, or ran last
    args,             \* the arguments of op (and the clock it read)
    statuses,         \* status codes received by the running __get/__post call
    response,         \* value the running __get/__post call returned, once it has
    page,             \* __load_all: local page
    items,            \* __load_all: local items
    pagelog,          \* __load_all: <<page requested, value __get returned>>, in order
    held,             \* get_collections: the pages the service holds after the first
    result            \* outcome of op: pending, a returned value or a raised error

apiVars == <<session, endpoint, sessionsCreated, configFetches, pc, op, args,
             statuses, response, page, items, pagelog, held, result>>

\* The collection calendar entity of calendar.py (RecycleAppCalendarEntity)
VARIABLES
    remove_change_listener,  \* self._remove_change_listener: 0 is None, else the
                             \* listener its call unsubscribes (calendar.py:147)
    listeners,               \* listeners the entity registered that are subscribed
    registrations,           \* number of async_track_state_change_event calls
    coordinator_data,        \* self.coordinator.data as event last read it
    entity_ids,              \* event: local entity_ids (calendar.py:162)
    event_value,             \* what event last returned
    cal_op,                  \* the entity method that ended last
    cal_pc                   \* position within async_will_remove_from_hass

calendarVars == <<remove_change_listener, listeners, registrations,
                  coordinator_data, entity_ids, event_value, cal_op, cal_pc>>

vars == <<apiVars, calendarVars>>

-----------------------------------------------------------------------------
(* Bounds of the model *)

\* records in one collections response (get_collections)
MaxRecords == 2
\* largest page count a response declares (__load_all)
MaxPages == 2
\* listeners one calendar entity registers over its life
MaxListeners == 3
\* candidates in one streets response (get_street)
MaxCandidates == 2
\* parks in one recycling-parks response (get_recycling_parks)
MaxParks == 2

SeqUpTo(S, n) == UNION {[1..k -> S] : k \in 0..n}

-----------------------------------------------------------------------------
(* Strings are sequences of one-character strings, so that str.strip,      *)
(* str.lower, str.split and int() are computed character by character.     *)

Whitespace == {" "}

lowerChar(c) ==
    CASE c = "A" -> "a"
      [] c = "B" -> "b"
      [] OTHER -> c

\* str.lower()
lower(s) == [i \in 1..Len(s) |-> lowerChar(s[i])]

\* str.strip(): drop leading and trailing whitespace
strip(s) ==
    LET inner == {i \in 1..Len(s) : s[i] \notin Whitespace}
    IN  IF inner = {} THEN <<>>
        ELSE LET first == CHOOSE i \in inner : \A j \in inner : i <= j
                 last  == CHOOSE i \in inner : \A j \in inner : j <= i
             IN  SubSeq(s, first, last)

\* str.split(sep)[0]: the part before the first separator
splitFirst(s, sep) ==
    LET hits == {i \in 1..Len(s) : s[i] = sep}
    IN  IF hits = {} THEN s
        ELSE SubSeq(s, 1, (CHOOSE i \in hits : \A j \in hits : i <= j) - 1)

\* str.split(sep): all parts
RECURSIVE split(_, _)
split(s, sep) ==
    LET head == splitFirst(s, sep)
    IN  IF Len(head) = Len(s) THEN <<s>>
        ELSE <<head>> \o split(SubSeq(s, Len(head) + 2, Len(s)), sep)

digit(c) ==
    CASE c = "0" -> 0 [] c = "1" -> 1 [] c = "2" -> 2 [] c = "3" -> 3
      [] c = "4" -> 4 [] c = "5" -> 5 [] c = "6" -> 6 [] c = "7" -> 7
      [] c = "8" -> 8 [] c = "9" -> 9

\* int() of a string of decimal digits
RECURSIVE int(_)
int(s) ==
    IF Len(s) = 0 THEN 0
    ELSE 10 * int(SubSeq(s, 1, Len(s) - 1)) + digit(s[Len(s)])

-----------------------------------------------------------------------------
(* Values *)

\* the outcome of an operation
Pending == [kind |-> "pending", value |-> "none"]
Return(v) == [kind |-> "return", value |-> v]
Raise(e) == [kind |-> "raise", value |-> e]

Unset == "unset"

\* calendar.py:147: a fresh RecycleAppCalendarEntity
InitCalendar ==
    /\ remove_change_listener = 0
    /\ listeners = {}
    /\ registrations = 0
    /\ coordinator_data = [present |-> FALSE, dates |-> <<>>]
    /\ entity_ids = <<>>
    /\ event_value = [start |-> <<>>, summary |-> <<>>]
    /\ cal_op = "none"
    /\ cal_pc = "idle"

\* what the GET of app.settings.json can do (api.py:47-49)
ConfigOutcomes == {"ok", "unreachable", "noAPI"}

NoArgs == [street |-> <<>>, year |-> 0, month |-> 0,
           fromDate |-> <<>>, untilDate |-> <<>>]

\* a JSON response envelope; kind tells which fields it has:
\*   "ok" all of them, "noitems" lacks items, "nopages" lacks pages,
\*   "empty" is a falsy JSON value ({} or null), "None" is the absent
\*   result of the request primitives (api.py:58, 66)
Envelope(k, t, its, p) == [kind |-> k, total |-> t, items |-> its, pages |-> p]
NoneResponse == Envelope("None", 0, <<>>, 0)
NoResponse == Envelope("pending", 0, <<>>, 0)

-----------------------------------------------------------------------------
(* get_zip_code (api.py:97-118) *)

ZipItems ==
    { [id |-> "z1", code |-> "1000", names |-> <<"Bruxelles">>],
      [id |-> "z2", code |-> "1000", names |-> <<"Brussel", "Bruxelles">>] }

ZipBodies == {Envelope("ok", Len(its), its, 1) : its \in SeqUpTo(ZipItems, 1)}

RECURSIVE zipPairs(_)
zipPairs(its) ==
    IF its = <<>> THEN <<>>
    ELSE LET item == Head(its)
         IN  [i \in 1..Len(item.names) |-> <<item.id, <<item.code, item.names[i]>>>>]
                \o zipPairs(Tail(its))

\* api.py:113-118; subscripting None raises TypeError
get_zip_code_result(resp) ==
    IF resp.kind = "None" THEN Raise("TypeError")
    ELSE Return(zipPairs(resp.items))

-----------------------------------------------------------------------------
(* get_street (api.py:120-152) *)

StreetNames ==
    { <<"A", "b">>, <<" ", "a", "b">>, <<"b", "a">> }

StreetQueries ==
    { <<"a", "b">>, <<" ", "A", "B", " ">>, <<"b">> }

Candidates == [id : {"s1", "s2"}, name : StreetNames]

\* the service's answer: the declared total and the candidates it returns
StreetBodies ==
    { Envelope("ok", t, its, 1) :
        t \in 0..MaxCandidates, its \in SeqUpTo(Candidates, MaxCandidates) }

\* a comparison of the names as the service wrote them
matching_verbatim(its, q) == {i \in 1..Len(its) : its[i].name = q}

\* api.py:144: the candidates whose name matches the normalised query
matching(its, q) == {i \in 1..Len(its) : lower(strip(its[i].name)) = q}

\* a resolution that compares the names whatever the total
needs_match_always(resp) == TRUE

\* api.py:139: the names are compared unless the declared total is 1
needs_match(resp) == resp.total # 1

\* api.py:137-152, with street the argument as the caller passed it
get_street_result(street, resp) ==
    LET q == lower(strip(street))
    IN  IF resp.kind = "None" THEN Raise("TypeError")
        ELSE IF needs_match(resp)
        THEN LET m == matching(resp.items, q)
             IN  IF m = {} THEN Raise("invalid_streetname")
                 ELSE LET i == CHOOSE i \in m : \A j \in m : i <= j
                      IN  Return(<<resp.items[i].id, resp.items[i].name>>)
        ELSE IF Len(resp.items) = 0 THEN Raise("IndexError")
        ELSE Return(<<resp.items[1].id, resp.items[1].name>>)

-----------------------------------------------------------------------------
(* get_recycling_parks (api.py:154-199) *)

\* a JSON value found under location.coordinates; numbers are written as
\* strings, "num" is a bare number, "dict" an object with elems as its keys
Coord(t, e) == [type |-> t, elems |-> e]

CoordinateValues ==
    { Coord("absent", <<>>), Coord("null", <<>>),
      Coord("list", <<>>),
      Coord("list", <<"4.35">>),
      Coord("list", <<"4.35", "50.85">>),
      Coord("list", <<"50.85", "4.35">>),
      Coord("list", <<"4.35", "50.85", "12">>),
      Coord("str", <<>>), Coord("str", <<"4", "5">>),
      Coord("num", <<"0">>), Coord("num", <<"7">>),
      Coord("dict", <<>>), Coord("dict", <<"lat", "lon">>) }

\* the location of an item: no such key, JSON null, or an object
Locations ==
    { [type |-> "absent", coordinates |-> Coord("absent", <<>>)],
      [type |-> "null", coordinates |-> Coord("absent", <<>>)] }
    \cup { [type |-> "dict", coordinates |-> c] : c \in CoordinateValues }

ParkItems == [id : {"p1", "p2"}, location : Locations]

ParkBodies ==
    { Envelope("ok", Len(its), its, 1) : its \in SeqUpTo(ParkItems, MaxParks) }
    \cup { Envelope("noitems", 0, <<>>, 1) }

\* Python truthiness of the value (api.py:176)
truthy(c) ==
    CASE c.type \in {"absent", "null"} -> FALSE
      [] c.type = "num" -> c.elems # <<"0">>
      [] OTHER -> Len(c.elems) > 0

\* coordinates unpacked as lat, lon
coordinates_swapped(c) ==
    IF truthy(c) /\ c.type = "list" /\ Len(c.elems) = 2
    THEN [latitude |-> c.elems[1], longitude |-> c.elems[2]]
    ELSE [latitude |-> "null", longitude |-> "null"]

\* api.py:175-180 and 186: the "coordinates" entry built for one item
coordinates(c) ==
    IF truthy(c) /\ c.type = "list" /\ Len(c.elems) = 2
    THEN [latitude |-> c.elems[2], longitude |-> c.elems[1]]
    ELSE [latitude |-> "null", longitude |-> "null"]

\* api.py:173-197: the loop over the items, result keyed by item id
RECURSIVE parks(_, _)
parks(its, acc) ==
    IF its = <<>> THEN Return(acc)
    ELSE LET item == Head(its)
         IN  IF item.location.type = "null"
             THEN Raise("AttributeError")   \* None.get (api.py:175)
             ELSE parks(Tail(its),
                        [k \in DOMAIN acc \cup {item.id} |->
                            IF k = item.id
                            THEN [coordinates |-> coordinates(item.location.coordinates)]
                            ELSE acc[k]])

\* api.py:168-199; response.get on None raises AttributeError
get_recycling_parks_result(resp) ==
    IF resp.kind = "None" THEN Raise("AttributeError")
    ELSE parks(IF resp.kind = "ok" THEN resp.items ELSE <<>>, <<>>)

-----------------------------------------------------------------------------
(* The collections endpoint: get_fractions and get_collections *)

\* the recognised fraction logo ids (const.py, imported at api.py:9)
COLLECTION_TYPES == {"f1", "f2"}

\* fraction.logo.id of a record: "absent" is a record without fraction or logo
LogoIds == {"absent", "f1", "f2", "x9"}

\* the exception of a record: no exception, an exception whose replacedBy
\* is empty or null, an exception that names its replacement
Exceptions == {"absent", "emptyReplacedBy", "replacedBy"}

\* the timestamp of a record; <<>> is a missing or empty timestamp
Timestamps ==
    { <<>>,
      <<"2", "0", "2", "4", "-", "0", "1", "-", "0", "5", "T", "0", "8">>,
      <<"2", "0", "2", "4", "-", "0", "1", "-", "0", "5", "T", "1", "7">>,
      <<"2", "0", "2", "4", "-", "0", "1", "-", "1", "2", "T", "0", "8">> }

CollectionRecord(e, l, c, t) ==
    [exception |-> e, logo |-> l, color |-> c, timestamp |-> t]

\* the records get_collections is given
CollectionRecords ==
    { CollectionRecord(e, l, "grey", t) :
        e \in Exceptions, l \in LogoIds, t \in Timestamps }

\* the records the pages of get_fractions hold
FractionRecords ==
    { CollectionRecord("absent", l, c, <<>>) :
        l \in {"absent", "f1", "x9"}, c \in {"grey"} }
    \cup { CollectionRecord("absent", "f1", "blue", <<>>) }

\* bodies the collections endpoint answers a single request with: the
\* records of a window that fits one page, or the first of two pages
CollectionBodies ==
    { Envelope("ok", 0, its, 1) : its \in SeqUpTo(CollectionRecords, MaxRecords) }
    \cup { Envelope("ok", 0, its, 2) : its \in SeqUpTo(CollectionRecords, 1) }
    \cup { Envelope("noitems", 0, <<>>, 1) }

\* the second page of a window that the service holds on two pages
SecondPages ==
    { <<CollectionRecord("absent", "f1", "grey",
          <<"2", "0", "2", "4", "-", "0", "1", "-", "1", "2", "T", "0", "8">>)>>,
      <<CollectionRecord("replacedBy", "f2", "grey",
          <<"2", "0", "2", "4", "-", "0", "1", "-", "1", "2", "T", "0", "8">>)>> }

\* the pages the service holds beyond the one it answered with: the page
\* count a collections response declares beyond 1 is backed by records
FurtherPages(o, body) ==
    IF o = "get_collections" /\ body.kind = "ok" /\ body.pages = 2
    THEN {<<second>> : second \in SecondPages}
    ELSE {<<>>}

\* bodies the collections endpoint answers a page request with
PageBodies ==
    { Envelope("ok", 0, its, p) :
        its \in SeqUpTo(FractionRecords, 1), p \in 0..MaxPages }
    \cup { Envelope("noitems", 0, <<>>, 1), Envelope("nopages", 0, <<>>, 0),
           Envelope("empty", 0, <<>>, 0) }

\* api.py:286-290: the date of a timestamp, <<>> when parts[0] is empty
collection_date(timestamp) ==
    LET parts == split(splitFirst(timestamp, "T"), "-")
    IN  IF Len(parts[1]) = 0 THEN <<>>
        ELSE <<int(parts[1]), int(parts[2]), int(parts[3])>>

\* a loop that keeps the replaced records
replaced_ignored(item) == FALSE

\* api.py:276: the record's exception names a replacement
replaced(item) == item.exception = "replacedBy"

\* a loop that appends every date
seen_never(fraction, date) == FALSE

\* api.py:292: the date is in the fraction's list already
seen(fraction, date) == \E i \in 1..Len(fraction) : fraction[i] = date

\* api.py:275-293: the loop over the records; acc is result
RECURSIVE collect(_, _)
collect(records, acc) ==
    IF records = <<>> THEN acc
    ELSE LET item == Head(records)
             fraction_id == item.logo
             date == collection_date(item.timestamp)
         IN  IF replaced(item) THEN collect(Tail(records), acc)
             ELSE IF fraction_id \notin COLLECTION_TYPES THEN collect(Tail(records), acc)
             ELSE IF date = <<>> THEN collect(Tail(records), acc)
             ELSE LET fraction == IF fraction_id \in DOMAIN acc
                                  THEN acc[fraction_id] ELSE <<>>
                      updated == IF seen(fraction, date)
                                 THEN fraction ELSE Append(fraction, date)
                  IN  collect(Tail(records),
                              [k \in DOMAIN acc \cup {fraction_id} |->
                                  IF k = fraction_id THEN updated ELSE acc[k]])

\* api.py:270-295; None["items"] raises TypeError, a body without items KeyError
get_collections_result(resp) ==
    IF resp.kind = "None" THEN Raise("TypeError")
    ELSE IF resp.kind \in {"noitems", "empty"} THEN Raise("KeyError")
    ELSE Return(collect(resp.items, <<>>))

\* a comprehension that keeps every record with a logo
kept_fraction_any_logo(f) == f.logo # "absent"

\* api.py:238-239: the record has a logo and its id is recognised
kept_fraction(f) == f.logo # "absent" /\ f.logo \in COLLECTION_TYPES

\* api.py:232-240: the dict comprehension, a later record replacing an
\* earlier one with the same logo id
get_fractions_result(its) ==
    LET kept == {i \in 1..Len(its) : kept_fraction(its[i])}
    IN  Return([k \in {its[i].logo : i \in kept} |->
                  LET last == CHOOSE i \in kept :
                                /\ its[i].logo = k
                                /\ \A j \in kept : its[j].logo = k => j <= i
                  IN  its[last].color])

\* a window whose year changes in July
window_from_july(year, month) ==
    LET start_year == IF month > 6 THEN year ELSE year - 1
    IN  [fromDate |-> <<start_year, 1, 1>>, untilDate |-> <<start_year + 1, 12, 31>>]

\* api.py:224-228: the window get_fractions asks for, from the clock
window(year, month) ==
    LET start_year == IF month >= 6 THEN year ELSE year - 1
    IN  [fromDate |-> <<start_year, 1, 1>>, untilDate |-> <<start_year + 1, 12, 31>>]

Years == {2024}
Months == 1..12

-----------------------------------------------------------------------------
(* The client *)

GetOps == {"get_zip_code", "get_recycling_parks", "get_fractions", "get_collections"}
PostOps == {"get_street"}

\* a page without items that declares one page more than the page asked
\* for: the answer of a service whose page count keeps ahead of the client
GrowingBody == Envelope("ok", 0, <<>>, page + 1)

\* what the service may answer a request of the operation with
Bodies(o) ==
    CASE o = "get_zip_code" -> ZipBodies
      [] o = "get_street" -> StreetBodies
      [] o = "get_recycling_parks" -> ParkBodies
      [] o = "get_collections" -> CollectionBodies
      [] o = "get_fractions" -> PageBodies \cup {GrowingBody}

\* api.py:23-24: a fresh FostPlusApi
Init ==
    /\ session = FALSE
    /\ endpoint = Unset
    /\ sessionsCreated = 0
    /\ configFetches = 0
    /\ pc = "idle"
    /\ op = "none"
    /\ args = NoArgs
    /\ statuses = <<>>
    /\ response = NoResponse
    /\ page = 0
    /\ items = <<>>
    /\ pagelog = <<>>
    /\ held = <<>>
    /\ result = Pending
    /\ InitCalendar

\* operation o starts with arguments a; every operation begins with
\* __ensure_initialization (api.py:31, 53, 61)
Call(o, a) ==
    /\ pc' = "ensure"
    /\ op' = o
    /\ args' = a
    /\ statuses' = <<>>
    /\ response' = NoResponse
    /\ page' = IF o = "get_fractions" THEN 1 ELSE 0    \* api.py:84
    /\ items' = <<>>                                   \* api.py:83
    /\ pagelog' = <<>>
    /\ held' = <<>>
    /\ result' = Pending
    /\ UNCHANGED <<session, endpoint, sessionsCreated, configFetches>>
    /\ UNCHANGED calendarVars

\* api.py:26-31
initialize ==
    /\ pc = "idle"
    /\ Call("initialize", NoArgs)

\* api.py:97-113
get_zip_code ==
    /\ pc = "idle"
    /\ Call("get_zip_code", NoArgs)

\* api.py:120-138
get_street ==
    /\ pc = "idle"
    /\ \E street \in StreetQueries :
         Call("get_street", [NoArgs EXCEPT !.street = street])

\* api.py:154-171
get_recycling_parks ==
    /\ pc = "idle"
    /\ Call("get_recycling_parks", NoArgs)

\* api.py:201-230; year and month are datetime.now(), fromDate and
\* untilDate the window of the action string that __load_all is given
get_fractions ==
    /\ pc = "idle"
    /\ \E y \in Years, m \in Months :
         Call("get_fractions",
              [NoArgs EXCEPT !.year = y, !.month = m,
                             !.fromDate = window(y, m).fromDate,
                             !.untilDate = window(y, m).untilDate])

\* api.py:242-274; from_date and until_date only shape the action string
\* of the single __get, and the answer does not depend on them here
get_collections ==
    /\ pc = "idle"
    /\ Call("get_collections", NoArgs)

\* the operation ends with outcome r
Finish(r) ==
    /\ pc' = "idle"
    /\ result' = r

\* a fetch that stops one page early
last_page_early(p, resp) == p >= resp.pages

\* a fetch that asks for one page more than declared
last_page_late(p, resp) == p > resp.pages + 1

\* api.py:92: the page to request next is past the declared page count
last_page(p, resp) == p > resp.pages

\* a fetch that drops what it gathered when it breaks off
items_after_break_dropped(its) == <<>>

\* api.py:87-88 and 95: break leaves the loop and items is returned as it is
items_after_break(its) == its

\* Page numbers from PageCap on are not told apart.  Every count of
\* PageBodies is below PageCap and the count of GrowingBody is one above
\* the page asked for, so the comparison of api.py:92 has the same outcome
\* for all of them; page and pagelog stand still there, which keeps the
\* endless fetch against a growing page count within finitely many states.
PageCap == MaxPages + 1

\* api.py:85-95: one turn of the loop of __load_all once __get returned resp;
\* get_fractions (api.py:232-240) consumes the returned items
load_all(resp) ==
    /\ pagelog' = IF Len(pagelog) < page
                  THEN Append(pagelog, <<page, resp>>)
                  ELSE [pagelog EXCEPT ![Len(pagelog)] = <<page, resp>>]
    /\ IF resp.kind \in {"None", "empty", "noitems", "nopages"}
       THEN /\ items' = items_after_break(items)
            /\ Finish(get_fractions_result(items_after_break(items)))
            /\ UNCHANGED page
       ELSE /\ items' = items \o resp.items
            /\ page' = IF page < PageCap THEN page + 1 ELSE page
            /\ IF last_page(page + 1, resp)
               THEN Finish(get_fractions_result(items \o resp.items))
               ELSE pc' = "ensure" /\ result' = result

\* the caller of __get/__post goes on with the value resp it returned
Returned(resp) ==
    /\ response' = resp
    /\ IF op = "get_fractions" THEN load_all(resp)
       ELSE /\ Finish(CASE op = "get_zip_code" -> get_zip_code_result(resp)
                        [] op = "get_street" -> get_street_result(args.street, resp)
                        [] op = "get_recycling_parks" -> get_recycling_parks_result(resp)
                        [] op = "get_collections" -> get_collections_result(resp))
            /\ UNCHANGED <<items, page, pagelog>>

\* an initialization that does not look at the session
is_initialized_never == FALSE

\* api.py:34: if self.__session
is_initialized == session

\* api.py:33-50, at the head of initialize, __get and __post
ensure_initialization ==
    /\ pc = "ensure"
    /\ IF is_initialized
       THEN /\ UNCHANGED <<session, endpoint, sessionsCreated, configFetches>>
            /\ IF op = "initialize" THEN Finish(Return("None"))
               ELSE pc' = "attempt" /\ result' = result
       ELSE /\ session' = TRUE
            /\ sessionsCreated' = sessionsCreated + 1
            /\ configFetches' = configFetches + 1
            /\ \E cfg \in ConfigOutcomes :
                 IF cfg = "ok"
                 THEN /\ endpoint' = "https://api/public/v1"
                      /\ IF op = "initialize" THEN Finish(Return("None"))
                         ELSE pc' = "attempt" /\ result' = result
                 ELSE /\ endpoint' = endpoint
                      /\ Finish(Raise(IF cfg = "noAPI" THEN "KeyError"
                                      ELSE "ConnectionError"))
    /\ statuses' = <<>>
    /\ response' = NoResponse
    /\ UNCHANGED <<op, args, page, items, pagelog, held>>
    /\ UNCHANGED calendarVars

\* a retry loop of three turns
retry_range_three == 2 + 1

\* api.py:54 and 62: range(2), the number of requests a call may send
retry_range == 2

\* api.py:54-58 and 62-66: one turn of the retry loop, a request and its answer
attempt ==
    /\ pc = "attempt"
    /\ IF endpoint = Unset
       THEN /\ Finish(Raise("AttributeError"))   \* self.__endpoint was never set
            /\ UNCHANGED <<statuses, response, page, items, pagelog, held>>
       ELSE \E status \in {200, 500}, body \in Bodies(op) :
              /\ statuses' = Append(statuses, status)
              /\ IF status = 200
                 THEN /\ Returned(body)
                      /\ held' \in FurtherPages(op, body)
                 ELSE /\ held' = held
                      /\ IF Len(statuses) + 1 = retry_range THEN Returned(NoneResponse)
                         ELSE UNCHANGED <<pc, result, response, page, items, pagelog>>
    /\ UNCHANGED <<session, endpoint, sessionsCreated, configFetches, op, args>>
    /\ UNCHANGED calendarVars

\* api.py:60-66
get == op \in GetOps /\ attempt

\* api.py:52-58
post == op \in PostOps /\ attempt

Next ==
    \/ initialize
    \/ get_zip_code
    \/ get_street
    \/ get_recycling_parks
    \/ get_fractions
    \/ get_collections
    \/ ensure_initialization
    \/ get
    \/ post

Spec == Init /\ [][Next]_vars

\* a running operation goes on: the interpreter takes the next step of the
\* method, and every request is answered
FairSpec ==
    /\ Spec
    /\ WF_vars(ensure_initialization)
    /\ WF_vars(get)
    /\ WF_vars(post)

-----------------------------------------------------------------------------
(* The collection calendar entity (calendar.py:110-213) *)

\* the fraction ids of coordinator.data, in the order items() yields them
CalendarFractions == <<"f1", "f2">>

CalendarDates == {<<2024, 1, 5>>, <<2024, 1, 12>>}

\* date.max (calendar.py:155)
DateMax == <<9999, 12, 31>>

\* a < b on dates
before(a, b) ==
    \/ a[1] < b[1]
    \/ a[1] = b[1] /\ a[2] < b[2]
    \/ a[1] = b[1] /\ a[2] = b[2] /\ a[3] < b[3]

\* coordinator.data: None, or fraction id -> event_dates[0]
CoordinatorData ==
    { [present |-> FALSE, dates |-> <<>>] }
    \cup { [present |-> TRUE, dates |-> d] :
             d \in UNION { [S -> CalendarDates] : S \in SUBSET {"f1", "f2"} } }

\* calendar.py:163-185: the loop over coordinator.data.items(), from the
\* i-th fraction on; registered are the fractions with a sensor in the
\* entity registry, stated those whose sensor has a state
RECURSIVE next_event(_, _, _, _, _)
next_event(i, data, registered, stated, acc) ==
    IF i > Len(CalendarFractions) THEN acc
    ELSE LET fraction_id == CalendarFractions[i]
             go(a) == next_event(i + 1, data, registered, stated, a)
         IN  IF fraction_id \notin DOMAIN data.dates THEN go(acc)
             ELSE IF fraction_id \notin registered THEN go(acc)
             ELSE LET found == [acc EXCEPT !.entity_ids = Append(@, fraction_id)]
                      first == data.dates[fraction_id]
                  IN  IF fraction_id \notin stated THEN go(found)
                      ELSE IF before(found.next_collect, first) THEN go(found)
                      ELSE IF before(first, found.next_collect)
                      THEN go([found EXCEPT !.next_collect = first,
                                            !.labels = <<fraction_id>>])
                      ELSE go([found EXCEPT !.labels = Append(@, fraction_id)])

\* an entity that forgets the listener it holds
has_listener_never == FALSE

\* calendar.py:152 and 211: if self._remove_change_listener
has_listener == remove_change_listener # 0

\* calendar.py:153 and 212: the call of the stored unsubscribe function
unsubscribed == IF has_listener THEN listeners \ {remove_change_listener} ELSE listeners

\* calendar.py:149-203: one evaluation of the event property
event ==
    \E data \in CoordinatorData, registered \in SUBSET {"f1", "f2"} :
      \E stated \in SUBSET registered :
        LET scan == next_event(1, data, registered, stated,
                               [next_collect |-> DateMax, labels |-> <<>>,
                                entity_ids |-> <<>>])
        IN  /\ coordinator_data' = data
            /\ cal_op' = "event"
            /\ IF ~data.present
               THEN /\ listeners' = unsubscribed
                    /\ remove_change_listener' = 0
                    /\ entity_ids' = <<>>
                    /\ event_value' = [start |-> <<>>, summary |-> <<>>]
                    /\ UNCHANGED registrations
               ELSE IF scan.labels = <<>>
               THEN /\ registrations < MaxListeners
                    /\ registrations' = registrations + 1
                    /\ listeners' = unsubscribed \cup {registrations + 1}
                    /\ remove_change_listener' = registrations + 1
                    /\ entity_ids' = scan.entity_ids
                    /\ event_value' = [start |-> <<>>, summary |-> <<>>]
               ELSE /\ listeners' = unsubscribed
                    /\ remove_change_listener' = 0
                    /\ entity_ids' = scan.entity_ids
                    /\ event_value' = [start |-> scan.next_collect,
                                       summary |-> scan.labels]
                    /\ UNCHANGED registrations
            /\ UNCHANGED cal_pc
            /\ UNCHANGED apiVars

\* calendar.py:210: await super().async_will_remove_from_hass(); the event
\* loop may evaluate event before the coroutine goes on
async_will_remove_from_hass_super ==
    /\ cal_pc = "idle"
    /\ cal_pc' = "removing"
    /\ UNCHANGED <<remove_change_listener, listeners, registrations,
                   coordinator_data, entity_ids, event_value, cal_op>>
    /\ UNCHANGED apiVars

\* calendar.py:211-213
async_will_remove_from_hass ==
    /\ cal_pc = "removing"
    /\ cal_pc' = "idle"
    /\ listeners' = unsubscribed
    /\ remove_change_listener' = 0
    /\ cal_op' = "async_will_remove_from_hass"
    /\ UNCHANGED <<registrations, coordinator_data, entity_ids, event_value>>
    /\ UNCHANGED apiVars

NextCalendar ==
    \/ event
    \/ async_will_remove_from_hass_super
    \/ async_will_remove_from_hass

SpecCalendar == Init /\ [][NextCalendar]_vars

-----------------------------------------------------------------------------
(* Properties *)

\* operation o has ended
Done(o) == pc = "idle" /\ op = o /\ result.kind # "pending"

RECURSIVE concatPages(_)
concatPages(log) ==
    IF log = <<>> THEN <<>> ELSE Head(log)[2].items \o concatPages(Tail(log))

\* every page request of the fetch was answered with a well-formed page
\* that declares the page count P
ConsistentPages(P) ==
    /\ pagelog # <<>>
    /\ \A i \in 1..Len(pagelog) :
         pagelog[i][2].kind = "ok" /\ pagelog[i][2].pages = P

\* C1: a paginated fetch whose every page response declares the same page
\* count P >= 1 and succeeds requests the pages 1..P, each once and in
\* order, and returns the concatenation of their items in page order.
C1_LoadAllConcatenatesPages ==
    \A P \in 1..(MaxPages + 1) :
        (Done("get_fractions") /\ ConsistentPages(P)) =>
            /\ Len(pagelog) = P
            /\ \A i \in 1..Len(pagelog) : pagelog[i][1] = i
            /\ items = concatPages(pagelog)

C1_Witness ==
    /\ Done("get_fractions")
    /\ ConsistentPages(2)
    /\ Len(pagelog) = 2
    /\ pagelog[1][2].items # <<>>
    /\ pagelog[2][2].items # <<>>
    /\ pagelog[1][2].items # pagelog[2][2].items
    /\ items = pagelog[1][2].items \o pagelog[2][2].items

\* C2: a call of __get/__post sends no request after a success status,
\* sends at most 2 requests, returns only after a success or after the
\* second failure, and after two failures returns None.
C2_BoundedRetry ==
    /\ Len(statuses) <= 2
    /\ \A i \in 1..(Len(statuses) - 1) : statuses[i] # 200
    /\ (response.kind # "pending") =>
          /\ statuses # <<>>
          /\ statuses[Len(statuses)] = 200 \/ Len(statuses) = 2
          /\ (statuses[Len(statuses)] = 200) <=> (response.kind # "None")
    /\ (Len(statuses) = 2 /\ statuses[2] # 200) => response = NoneResponse
    /\ (statuses # <<>> /\ statuses[Len(statuses)] = 200) => response.kind \notin {"pending", "None"}

C2_Witness ==
    /\ statuses = <<500, 500>>
    /\ response = NoneResponse
    /\ pc = "idle"

\* C3: the configuration resource is fetched at most once and a session is
\* created at most once, and once the client is initialized (session and
\* endpoint set) no step changes the session, the endpoint or the counts.
C3_InitializedOnce ==
    /\ [](configFetches <= 1 /\ sessionsCreated <= 1)
    /\ [][(session /\ endpoint # Unset) =>
            UNCHANGED <<session, endpoint, configFetches, sessionsCreated>>]_vars

\* a fetch of two pages: __ensure_initialization ran twice, the second
\* time on an initialized client
C3_Witness ==
    /\ op = "get_fractions"
    /\ Len(pagelog) = 2
    /\ session /\ endpoint # Unset
    /\ configFetches = 1
    /\ sessionsCreated = 1

\* the operation returned a value
Returned_value(o) == Done(o) /\ result.kind = "return"

\* C4: when the service declares and returns exactly one candidate,
\* get_street returns that candidate, whatever its name.
C4_SingleCandidateReturned ==
    (Done("get_street") /\ response.kind = "ok"
        /\ response.total = 1 /\ Len(response.items) = 1) =>
        /\ result.kind = "return"
        /\ result.value = <<response.items[1].id, response.items[1].name>>

\* the sole candidate's name differs from the query, and it is returned
C4_Witness ==
    /\ Done("get_street") /\ response.kind = "ok"
    /\ response.total = 1 /\ Len(response.items) = 1
    /\ lower(strip(response.items[1].name)) # lower(strip(args.street))
    /\ result.kind = "return"
    /\ result.value[2] = response.items[1].name

\* C5: when the service declares and returns 2 or more candidates,
\* get_street raises invalid_streetname if no candidate's trimmed,
\* lower-cased name equals the trimmed, lower-cased query, and otherwise
\* returns the first candidate whose name does.
C5_StreetNotFound ==
    (Done("get_street") /\ response.kind = "ok"
        /\ Len(response.items) >= 2 /\ response.total = Len(response.items)) =>
        LET q == lower(strip(args.street))
            m == {i \in 1..Len(response.items) :
                    lower(strip(response.items[i].name)) = q}
        IN  IF m = {}
            THEN result.kind = "raise" /\ result.value = "invalid_streetname"
            ELSE /\ result.kind = "return"
                 /\ \E i \in m :
                      /\ \A j \in m : i <= j
                      /\ result.value = <<response.items[i].id, response.items[i].name>>

\* two candidates, the second the only match, written with other case and
\* spacing than the query: it is the one returned
C5_FirstMatchReached ==
    /\ Done("get_street") /\ response.kind = "ok"
    /\ Len(response.items) = 2 /\ response.total = 2
    /\ lower(strip(response.items[1].name)) # lower(strip(args.street))
    /\ lower(strip(response.items[2].name)) = lower(strip(args.street))
    /\ response.items[2].name # args.street
    /\ result.kind = "return"
    /\ result.value = <<response.items[2].id, response.items[2].name>>

\* two candidates and no match: the error is raised
C5_Witness ==
    /\ Done("get_street") /\ response.kind = "ok"
    /\ Len(response.items) = 2 /\ response.total = 2
    /\ \A i \in 1..2 : lower(strip(response.items[i].name)) # lower(strip(args.street))
    /\ result.kind = "raise" /\ result.value = "invalid_streetname"

\* C6: every date get_collections returns for a fraction is the date of a
\* record of that fraction whose exception names no replacement.
C6_ReplacedExcluded ==
    Returned_value("get_collections") =>
        \A f \in DOMAIN result.value :
            \A k \in 1..Len(result.value[f]) :
                \E i \in 1..Len(response.items) :
                    /\ response.items[i].exception # "replacedBy"
                    /\ response.items[i].logo = f
                    /\ collection_date(response.items[i].timestamp) = result.value[f][k]

\* a replaced record of f1 and a kept record of f2 on the same day: the
\* day is returned for f2 alone
C6_Witness ==
    /\ Returned_value("get_collections")
    /\ Len(response.items) = 2
    /\ response.items[1].exception = "replacedBy"
    /\ response.items[1].logo = "f1"
    /\ response.items[1].timestamp # <<>>
    /\ response.items[2].exception = "absent"
    /\ response.items[2].logo = "f2"
    /\ response.items[2].timestamp = response.items[1].timestamp
    /\ DOMAIN result.value = {"f2"}
    /\ result.value["f2"] = <<<<2024, 1, 5>>>>

\* C7: no date list that get_collections returns holds a date twice.
C7_NoDuplicateDates ==
    Returned_value("get_collections") =>
        \A f \in DOMAIN result.value :
            \A a, b \in 1..Len(result.value[f]) :
                a # b => result.value[f][a] # result.value[f][b]

\* two kept records of f1 on the same day, at different hours
C7_Witness ==
    /\ Returned_value("get_collections")
    /\ Len(response.items) = 2
    /\ \A i \in 1..2 : /\ response.items[i].logo = "f1"
                       /\ response.items[i].exception # "replacedBy"
                       /\ response.items[i].timestamp # <<>>
    /\ response.items[1].timestamp # response.items[2].timestamp
    /\ collection_date(response.items[1].timestamp)
         = collection_date(response.items[2].timestamp)
    /\ result.value["f1"] = <<<<2024, 1, 5>>>>

\* C8: every key of the maps get_fractions and get_collections return is a
\* recognised logo id carried by a record of the input, and every date of
\* get_collections comes from a record with that recognised logo id.
C8_OnlyRecognisedFractions ==
    /\ Returned_value("get_fractions") =>
         \A k \in DOMAIN result.value :
            /\ k \in COLLECTION_TYPES
            /\ \E i \in 1..Len(items) : items[i].logo = k
    /\ Returned_value("get_collections") =>
         \A k \in DOMAIN result.value :
            /\ k \in COLLECTION_TYPES
            /\ \A d \in 1..Len(result.value[k]) :
                 \E i \in 1..Len(response.items) :
                    /\ response.items[i].logo = k
                    /\ collection_date(response.items[i].timestamp) = result.value[k][d]

\* a fetch that holds a record with an unrecognised logo and one with a
\* recognised logo returns the recognised one alone
C8_Witness ==
    /\ Returned_value("get_fractions")
    /\ \E i \in 1..Len(items) : items[i].logo = "x9"
    /\ \E i \in 1..Len(items) : items[i].logo = "f1"
    /\ DOMAIN result.value = {"f1"}

\* C9: get_fractions asks for Jan 1 of the collection year to Dec 31 of the
\* year after, the collection year being the year before the current one in
\* the months 1..5 and the current one in the months 6..12.
C9_FractionsWindow ==
    (op = "get_fractions") =>
        /\ args.month \in 1..5 =>
             /\ args.fromDate = <<args.year - 1, 1, 1>>
             /\ args.untilDate = <<args.year, 12, 31>>
        /\ args.month \in 6..12 =>
             /\ args.fromDate = <<args.year, 1, 1>>
             /\ args.untilDate = <<args.year + 1, 12, 31>>
        /\ (args.year = 2024 /\ args.month = 3) =>
             /\ args.fromDate = <<2023, 1, 1>>
             /\ args.untilDate = <<2024, 12, 31>>
        /\ (args.year = 2024 /\ args.month = 7) =>
             /\ args.fromDate = <<2024, 1, 1>>
             /\ args.untilDate = <<2025, 12, 31>>

\* a fetch made in June with the window of the current year
C9_Witness ==
    /\ op = "get_fractions"
    /\ args.year = 2024 /\ args.month = 6
    /\ args.fromDate = <<2024, 1, 1>> /\ args.untilDate = <<2025, 12, 31>>
    /\ pagelog # <<>>

C11_AbsentResultDegrades ==
    \A o \in {"get_zip_code", "get_recycling_parks", "get_fractions", "get_collections"} :
        (Done(o) /\ response = NoneResponse) => result.kind = "return"

\* C16: between operations, a client whose session is set has a
\* discovered endpoint.
C16_InitializedHasEndpoint ==
    (pc = "idle" /\ session) => endpoint # Unset

\* a page response that ends the fetch: absent or malformed
Broken(resp) == resp.kind \in {"None", "empty", "noitems", "nopages"}

\* C13: every paginated fetch ends.
C13_LoadAllTerminates ==
    (op = "get_fractions" /\ pc # "idle") ~> (pc = "idle")

\* C14 as claimed: a fetch that meets an absent or malformed page after
\* well-formed pages returns none of the items gathered before.
C14_PartialDropped ==
    (Done("get_fractions") /\ Len(pagelog) >= 2
        /\ Broken(pagelog[Len(pagelog)][2])) =>
        items = <<>>

\* C14 as amended: a fetch that meets an absent or malformed page after
\* well-formed pages returns the items of those pages, in page order.
C14_PartialKept ==
    (Done("get_fractions") /\ Len(pagelog) >= 2
        /\ Broken(pagelog[Len(pagelog)][2])) =>
        /\ items = concatPages(SubSeq(pagelog, 1, Len(pagelog) - 1))
        /\ result = get_fractions_result(items)

\* page 1 holds a recognised record, page 2 is absent or malformed: the
\* record is returned
C14_Witness ==
    /\ Done("get_fractions")
    /\ Len(pagelog) = 2
    /\ pagelog[1][2].kind = "ok" /\ Len(pagelog[1][2].items) = 1
    /\ pagelog[1][2].items[1].logo = "f1"
    /\ Broken(pagelog[2][2])
    /\ items = pagelog[1][2].items
    /\ result.kind = "return" /\ DOMAIN result.value = {"f1"}

\* C15: a fetch asks for the pages 1, 2, 3, ... in this order, each once,
\* asks for a further page only while its number is at most the count the
\* latest response declared, and with a consistent count P >= 1 asks for
\* exactly the pages 1..P.
C15_PagesInOrder ==
    (op = "get_fractions") =>
        /\ \A i \in 1..Len(pagelog) : pagelog[i][1] = i
        /\ \A i \in 2..Len(pagelog) :
             /\ pagelog[i - 1][2].kind = "ok"
             /\ pagelog[i][1] <= pagelog[i - 1][2].pages
        /\ (pc # "idle") =>
             /\ page = Len(pagelog) + 1 \/ (page = PageCap /\ Len(pagelog) = PageCap)
             /\ pagelog # <<>> =>
                  /\ pagelog[Len(pagelog)][2].kind = "ok"
                  /\ page <= pagelog[Len(pagelog)][2].pages
        /\ \A P \in 1..MaxPages :
             (pc = "idle" /\ ConsistentPages(P)) =>
                {pagelog[i][1] : i \in 1..Len(pagelog)} = 1..P

\* page 2 is being asked for after page 1 declared two pages
C15_Witness ==
    /\ op = "get_fractions" /\ pc = "attempt"
    /\ page = 2
    /\ Len(pagelog) = 1
    /\ pagelog[1][1] = 1
    /\ pagelog[1][2].pages = 2

\* C12: the non-replaced, recognised dates of the records on every page
\* the service holds for the window are in the calendar get_collections
\* returns.
C12_CollectionsAllPages ==
    Returned_value("get_collections") =>
        \A records \in {response.items} \cup {held[j] : j \in 1..Len(held)} :
            \A i \in 1..Len(records) :
                (/\ records[i].exception # "replacedBy"
                 /\ records[i].logo \in COLLECTION_TYPES
                 /\ records[i].timestamp # <<>>) =>
                    /\ records[i].logo \in DOMAIN result.value
                    /\ \E k \in 1..Len(result.value[records[i].logo]) :
                         result.value[records[i].logo][k]
                            = collection_date(records[i].timestamp)

\* C17: at most one listener registered by the entity is subscribed, it is
\* the one the entity holds the unsubscribe function of (so every earlier
\* one was unsubscribed before the newest was registered), and right after
\* async_will_remove_from_hass none is subscribed.
C17_OneListener ==
    /\ Cardinality(listeners) <= 1
    /\ listeners = IF remove_change_listener = 0 THEN {} ELSE {remove_change_listener}
    /\ \A l \in listeners : l = registrations
    /\ (cal_op = "async_will_remove_from_hass") =>
          listeners = {} /\ remove_change_listener = 0

\* a second listener is registered: the first one is no longer subscribed
C17_Witness ==
    /\ cal_op = "event"
    /\ registrations = 2
    /\ listeners = {2}
    /\ remove_change_listener = 2
    /\ coordinator_data.present

\* the entity is removed while it holds a listener
C17_RemovedReached ==
    /\ cal_op = "async_will_remove_from_hass"
    /\ registrations >= 1
    /\ listeners = {}

====
